---- MODULE Spec2Model ----
(***************************************************************************)
(* HandyPi: the gesture event state machine of the two frame loops         *)
(* (main.py: MediaPipe hands, yolo.py: YOLO body pose) and its publishing  *)
(* contract towards RabbitMQ (rabbitmq.py).                                *)
(*                                                                         *)
(* One behaviour of Spec is one run of run_live of one of the two          *)
(* programs.  The camera, the perception model, the broker and the         *)
(* keyboard are the environment: what they return is chosen with \E from   *)
(* small sets.  One behaviour of ConsumerSpec is one run of consumer.py,   *)
(* which is handed messages of this program's publishers and of others.    *)
(*                                                                         *)
(* Representation.                                                         *)
(*  - A Python Optional / list of at most one element is a tuple of length *)
(*    0 or 1: <<>> is None / [], <<v>> is the value.                       *)
(*  - A numpy array of points is a sequence of <<x, y>> pairs; the source  *)
(*    indexes from 0, At(arr, i) reads the (i+1)-th element.               *)
(*  - Pixel coordinates are integers.  The inputs are chosen so that every *)
(*    distance the code takes is an integer (Norm fails otherwise), so a   *)
(*    hand score is the exact number the float code computes.              *)
(*  - A body-pose score is the quotient dist / scale, kept as the exact    *)
(*    fraction <<dist, scale>>.                                            *)
(*  - A float of a position is the fraction <<pixels, size>>; a JSON text  *)
(*    is the sequence of its lexemes, which json_loads parses.             *)
(***************************************************************************)
EXTENDS Integers, Sequences, FiniteSets, TLC

\* ------------------------------------------------------------------ bounds

\* Frames the camera delivers in one run.
MaxFrames == 5

\* Largest distance Norm looks for.
MaxNorm == 200

\* messages the consumer is followed for
MaxMessages == 3

\* The shoulders of the poses the keypoint functions are called with are at
\* most this many units apart.
MaxGap == 20

\* ------------------------------------------------------- program constants

PINCH_DISTANCE_THRESHOLD == 40

\* 0.7, as a fraction
PINCH_SCORE_THRESHOLD == <<7, 10>>

NOSE_IDX == 0

LEFT_SHOULDER_IDX == 5

RIGHT_SHOULDER_IDX == 6

RIGHT_WRIST_IDX == 10

\* index of the thumb tip and of the index-finger tip in a hand
THUMB_TIP_IDX == 4

INDEX_TIP_IDX == 8

\* The keypoint functions are called with coordinates counted in 1e-4 pixel,
\* which makes the 1e-3 and the 1.0 of yolo.py:68 the integers 10 and 10000.
UnitsPerPixel == 10000

\* 1e9, the "effectively no pinch" score of yolo.py
NO_PINCH_SCORE == 1000000000

\* default capture size (run_live's width and height parameters)
FrameWidth == 640

FrameHeight == 480

ROUTING_KEY_TRIGGER == "RADr.Handout.Trigger"

\* os.getenv("RABBITMQ_ROUTING_KEY_POSITION"): configuration
ROUTING_KEY_POSITION == "RABBITMQ_ROUTING_KEY_POSITION"

\* ------------------------------------------------------------- arithmetic

Max(a, b) == IF a >= b THEN a ELSE b

\* arr[i] with the source's 0-based index
At(arr, i) == arr[i + 1]

\* arr.shape[0]
Shape0(arr) == Len(arr)

Sub(p, q) == <<p[1] - q[1], p[2] - q[2]>>

\* np.linalg.norm of a 2-vector; the inputs have integral norms
Norm(v) == CHOOSE r \in 0..MaxNorm : r * r = v[1] * v[1] + v[2] * v[2]

\* a / b < c / d for fractions with b, d > 0, without a product that overflows:
\* a * d < c * b  iff  a < ceil(c * b / d)
FracLess(p, q) ==
    LET cb == q[1] * p[2]
        ceil == (cb \div q[2]) + (IF cb % q[2] = 0 THEN 0 ELSE 1)
    IN  p[1] < ceil

\* ------------------------------------------------------ tracker.py (hands)

compute_pinch_distance(hand) ==
    IF Shape0(hand.landmarks_px) < 9
    THEN 0
    ELSE Norm(Sub(At(hand.landmarks_px, THUMB_TIP_IDX),
                  At(hand.landmarks_px, INDEX_TIP_IDX)))

get_thumb_tip_position(hand) ==
    IF Shape0(hand.landmarks_px) < 5
    THEN <<0, 0>>
    ELSE At(hand.landmarks_px, THUMB_TIP_IDX)

\* int(v / 2) for an integer v: the quotient, rounded towards zero
IntHalf(v) == IF v >= 0 THEN v \div 2 ELSE -((-v) \div 2)

get_pinch_point(hand) ==
    IF Shape0(hand.landmarks_px) < 9
    THEN <<0, 0>>
    ELSE LET thumb_tip == At(hand.landmarks_px, THUMB_TIP_IDX)
             index_tip == At(hand.landmarks_px, INDEX_TIP_IDX)
         IN  <<IntHalf(thumb_tip[1] + index_tip[1]), IntHalf(thumb_tip[2] + index_tip[2])>>

\* ------------------------------------------------------- yolo.py (body pose)

\* yolo.py:55-68 for keypoints whose coordinates are counted in 1/unit of a
\* pixel: the fallback 1.0 is `unit` of them, and `scale > 1e-3` is
\* scale / unit > 1 / 1000
compute_body_scale_from_kpts_in(kpts, unit) ==
    IF Shape0(kpts) <= Max(LEFT_SHOULDER_IDX, RIGHT_SHOULDER_IDX)
    THEN unit
    ELSE LET scale == Norm(Sub(At(kpts, LEFT_SHOULDER_IDX),
                               At(kpts, RIGHT_SHOULDER_IDX)))
         IN  IF scale * 1000 > unit THEN scale ELSE unit

\* yolo.py:71-87, likewise: the score is the fraction <<dist_hw, body_scale>>
compute_pinch_score_from_kpts_in(kpts, unit) ==
    IF Shape0(kpts) <= Max(NOSE_IDX, RIGHT_WRIST_IDX)
    THEN <<NO_PINCH_SCORE, 1>>
    ELSE <<Norm(Sub(At(kpts, RIGHT_WRIST_IDX), At(kpts, NOSE_IDX))),
           compute_body_scale_from_kpts_in(kpts, unit)>>

\* keypoints in whole pixels, as the frame loop's poses are: scale > 1e-3 iff
\* scale >= 1
compute_body_scale_from_kpts(kpts) == compute_body_scale_from_kpts_in(kpts, 1)

compute_pinch_score_from_kpts(kpts) == compute_pinch_score_from_kpts_in(kpts, 1)

get_hand_position_from_kpts(kpts) == At(kpts, RIGHT_WRIST_IDX)

get_pinch_point_from_kpts(kpts) == At(kpts, RIGHT_WRIST_IDX)

\* ------------------------------------------------------------ rabbitmq.py

\* A JSON text is the sequence of its lexemes, each [k |-> kind, v |-> <<>> or
\* <<payload>>]: the literals true, false and null, the punctuation, numbers
\* written without ("int") or with ("float") a fraction part, strings, and
\* "word" for characters that start no JSON value.
Lexeme(k) == [k |-> k, v |-> <<>>]

LexemeOf(k, payload) == [k |-> k, v |-> <<payload>>]

\* A Python value is [type |-> its class, v |-> <<>> or <<value>>, or the
\* items of a list].  A float is the fraction <<numerator, denominator>>.
PyBool(b) == [type |-> "bool", v |-> <<b>>]

PyInt(n) == [type |-> "int", v |-> <<n>>]

PyFloat(f) == [type |-> "float", v |-> <<f>>]

PyStr(str) == [type |-> "str", v |-> <<str>>]

PyNone == [type |-> "NoneType", v |-> <<>>]

PyList(items) == [type |-> "list", v |-> items]

PyDict(members) == [type |-> "dict", v |-> members]

\* json.dumps of a bool: the literal true or false
json_dumps_bool(b) == <<Lexeme(IF b THEN "true" ELSE "false")>>

\* json.dumps of a float (repr, which json.loads reads back to the same float)
json_dumps_float(f) == LexemeOf("float", f)

\* mutant: the two numbers are written in the other order
json_dumps_pair_Swapped(x, y) ==
    <<Lexeme("["), json_dumps_float(y), Lexeme(","), json_dumps_float(x), Lexeme("]")>>

\* json.dumps of a list of two floats: [x, y]
json_dumps_pair(x, y) ==
    <<Lexeme("["), json_dumps_float(x), Lexeme(","), json_dumps_float(y), Lexeme("]")>>

\* the message send_pinch_trigger hands to channel.basic_publish
send_pinch_trigger(is_pinching_arg) ==
    [routing_key |-> ROUTING_KEY_TRIGGER, body |-> json_dumps_bool(is_pinching_arg)]

\* the message send_thumb_position hands to channel.basic_publish
send_thumb_position(thumb_x_normalized, thumb_y_normalized) ==
    [routing_key |-> ROUTING_KEY_POSITION,
     body |-> json_dumps_pair(thumb_x_normalized, thumb_y_normalized)]

\* What the broker can answer to setup_rabbitmq_connection:
\*   connect_error     pika.BlockingConnection raises (unreachable, credentials)
\*   ok                the exchange is declared
\*   declare_conflict  ChannelClosedByBroker with reply_code 406
\*   declare_error     ChannelClosedByBroker with another reply code
\*   declare_lost      exchange_declare raises another exception: the stream
\*                     to the broker is lost
SetupOutcomes ==
    {"connect_error", "ok", "declare_conflict", "declare_error", "declare_lost"}

\* the reply code of PRECONDITION_FAILED
PRECONDITION_FAILED == 406

\* a reply code of ChannelClosedByBroker that is not 406 (ACCESS_REFUSED)
ACCESS_REFUSED == 403

\* what channel.exchange_declare(...) does under an answer of the broker:
\* the class of the exception it raises ("" when it returns) and the reply code
exchange_declare(outcome) ==
    CASE outcome = "declare_conflict" ->
            [exception |-> "ChannelClosedByBroker", reply_code |-> PRECONDITION_FAILED]
      [] outcome = "declare_error" ->
            [exception |-> "ChannelClosedByBroker", reply_code |-> ACCESS_REFUSED]
      [] outcome = "declare_lost" ->
            [exception |-> "StreamLostError", reply_code |-> 0]
      [] OTHER ->
            [exception |-> "", reply_code |-> 0]

\* what setup_rabbitmq_connection gives when it raises: nothing is returned;
\* opened tells whether the broker still holds the connection it had opened
SetupRaises(opened, declares) ==
    [raised |-> TRUE, connection |-> <<>>, channel |-> <<>>, opened |-> opened,
     declares |-> declares, open_channels |-> {}]

\* what setup_rabbitmq_connection gives when it returns `connection, channel`
SetupReturns(channel, declares) ==
    [raised |-> FALSE, connection |-> <<"connection">>, channel |-> <<channel>>,
     opened |-> TRUE, declares |-> declares, open_channels |-> {channel}]

\* mutant: a conflict is not recovered, every ChannelClosedByBroker is re-raised
setup_rabbitmq_connection_NoRecovery(outcome) ==
    IF outcome = "connect_error"
    THEN SetupRaises(FALSE, 0)
    ELSE LET e == exchange_declare(outcome)
         IN  IF e.exception = ""
             THEN SetupReturns(1, 1)
             ELSE SetupRaises(e.exception = "ChannelClosedByBroker", 1)

\* mutant: the exchange is declared again on the fresh channel
setup_rabbitmq_connection_Redeclare(outcome) ==
    IF outcome = "connect_error"
    THEN SetupRaises(FALSE, 0)
    ELSE LET e == exchange_declare(outcome)
         IN  IF e.exception = ""
             THEN SetupReturns(1, 1)
             ELSE IF e.exception = "ChannelClosedByBroker"
                  THEN IF e.reply_code = PRECONDITION_FAILED
                       THEN SetupReturns(2, 2)
                       ELSE SetupRaises(TRUE, 1)
                  ELSE SetupRaises(FALSE, 1)

\* mutant: every ChannelClosedByBroker is recovered, whatever its reply code
setup_rabbitmq_connection_RecoverAny(outcome) ==
    IF outcome = "connect_error"
    THEN SetupRaises(FALSE, 0)
    ELSE LET e == exchange_declare(outcome)
         IN  IF e.exception = ""
             THEN SetupReturns(1, 1)
             ELSE IF e.exception = "ChannelClosedByBroker"
                  THEN SetupReturns(2, 1)
                  ELSE SetupRaises(FALSE, 1)

\* setup_rabbitmq_connection, statement by statement: whether it raises, what
\* it returns, whether it has opened a connection at the broker, how often it
\* has called exchange_declare, and which channels of the connection are open
\* when it ends.  A channel is the number of the connection.channel() call
\* that made it; the broker has closed channel 1 when it refused the declare.
setup_rabbitmq_connection(outcome) ==
    IF outcome = "connect_error"
    THEN SetupRaises(FALSE, 0)                      \* line 40 raises
    ELSE LET e == exchange_declare(outcome)         \* lines 41-48
         IN  IF e.exception = ""
             THEN SetupReturns(1, 1)                \* line 55
             ELSE IF e.exception = "ChannelClosedByBroker"       \* line 49
                  THEN IF e.reply_code = PRECONDITION_FAILED     \* line 50
                       THEN SetupReturns(2, 1)      \* lines 51, 55
                       ELSE SetupRaises(TRUE, 1)    \* line 53
                  ELSE SetupRaises(FALSE, 1)        \* not caught here

\* what the camera setup can do: the camera is opened, or it is not (no
\* Picamera2 module, cap.isOpened() false) and RuntimeError is raised
CameraOutcomes == {"opened", "not_opened"}

\* what one guarded publish call can do: return, or raise an Exception
PublishOutcomes == {"ok", "failed"}

\* ------------------------------------------------------------ consumer.py

\* what pika hands to the broker for a str body, and the broker to a consumer:
\* the UTF-8 bytes of the text
str_encode(text) == [utf8 |-> TRUE, text |-> text]

\* body.decode('utf-8'): the text, or UnicodeDecodeError for bytes that are
\* not UTF-8
bytes_decode(body) ==
    IF body.utf8
    THEN [raised |-> FALSE, text |-> body.text]
    ELSE [raised |-> TRUE, text |-> <<>>]

\* the parser's results: a value and the position after it, or no value
Parsed(value, next) == [ok |-> TRUE, value |-> value, next |-> next]

NotParsed == [ok |-> FALSE, value |-> PyNone, next |-> 0]

\* the lexeme at position i is of kind k
LexemeIs(ts, i, k) == i <= Len(ts) /\ ts[i].k = k

RECURSIVE ParseValue(_, _)
RECURSIVE ParseItems(_, _, _)
RECURSIVE ParseMembers(_, _, _)

\* the JSON value that starts at position i of the text
ParseValue(ts, i) ==
    IF i > Len(ts) THEN NotParsed
    ELSE CASE ts[i].k = "true" -> Parsed(PyBool(TRUE), i + 1)
           [] ts[i].k = "false" -> Parsed(PyBool(FALSE), i + 1)
           [] ts[i].k = "null" -> Parsed(PyNone, i + 1)
           [] ts[i].k = "int" -> Parsed(PyInt(ts[i].v[1]), i + 1)
           [] ts[i].k = "float" -> Parsed(PyFloat(ts[i].v[1]), i + 1)
           [] ts[i].k = "str" -> Parsed(PyStr(ts[i].v[1]), i + 1)
           [] ts[i].k = "[" ->
                 IF LexemeIs(ts, i + 1, "]")
                 THEN Parsed(PyList(<<>>), i + 2)
                 ELSE ParseItems(ts, i + 1, <<>>)
           [] ts[i].k = "{" ->
                 IF LexemeIs(ts, i + 1, "}")
                 THEN Parsed(PyDict(<<>>), i + 2)
                 ELSE ParseMembers(ts, i + 1, <<>>)
           [] OTHER -> NotParsed

\* the items of an array from position i on, up to its closing bracket
ParseItems(ts, i, items) ==
    LET item == ParseValue(ts, i)
    IN  IF ~item.ok THEN NotParsed
        ELSE IF LexemeIs(ts, item.next, ",")
             THEN ParseItems(ts, item.next + 1, Append(items, item.value))
             ELSE IF LexemeIs(ts, item.next, "]")
                  THEN Parsed(PyList(Append(items, item.value)), item.next + 1)
                  ELSE NotParsed

\* the members of an object from position i on, up to its closing brace
ParseMembers(ts, i, members) ==
    IF ~(LexemeIs(ts, i, "str") /\ LexemeIs(ts, i + 1, ":")) THEN NotParsed
    ELSE LET member == ParseValue(ts, i + 2)
         IN  IF ~member.ok THEN NotParsed
             ELSE LET all == Append(members, <<ts[i].v[1], member.value>>)
                  IN  IF LexemeIs(ts, member.next, ",")
                      THEN ParseMembers(ts, member.next + 1, all)
                      ELSE IF LexemeIs(ts, member.next, "}")
                           THEN Parsed(PyDict(all), member.next + 1)
                           ELSE NotParsed

\* json.loads: the value of a text that is one JSON value and nothing else;
\* json.JSONDecodeError for any other text
json_loads(text) ==
    LET r == ParseValue(text, 1)
    IN  IF r.ok /\ r.next = Len(text) + 1
        THEN [raised |-> FALSE, value |-> r.value]
        ELSE [raised |-> TRUE, value |-> PyNone]

\* the classes whose instances are instances of cls: bool is a subclass of int
Subclasses(cls) == IF cls = "int" THEN {"int", "bool"} ELSE {cls}

\* isinstance(value, classes)
isinstance(value, classes) == \E cls \in classes : value.type \in Subclasses(cls)

\* a handler returns after printing one line about the value
HandlerPrints(line, value) == [raised |-> FALSE, printed |-> line, value |-> <<value>>]

\* an exception leaves the handler
HandlerRaises(exception) == [raised |-> TRUE, printed |-> exception, value |-> <<>>]

\* mutant: any value that Python takes for true or false is a trigger
handle_trigger_message_Truthy(body) ==
    LET message == bytes_decode(body)
    IN  IF message.raised
        THEN HandlerRaises("UnicodeDecodeError")
        ELSE LET trigger_state == json_loads(message.text)
             IN  IF trigger_state.raised
                 THEN HandlerPrints("Failed to parse trigger message", PyNone)
                 ELSE IF isinstance(trigger_state.value, {"bool", "int", "str"})
                      THEN HandlerPrints("Received pinch trigger", trigger_state.value)
                      ELSE HandlerPrints("Invalid boolean format", trigger_state.value)

\* handle_trigger_message (consumer.py:16-33): the decode of line 24 is before
\* the try; json.JSONDecodeError is caught at line 32
handle_trigger_message(body) ==
    LET message == bytes_decode(body)
    IN  IF message.raised
        THEN HandlerRaises("UnicodeDecodeError")
        ELSE LET trigger_state == json_loads(message.text)
             IN  IF trigger_state.raised
                 THEN HandlerPrints("Failed to parse trigger message", PyNone)
                 ELSE IF isinstance(trigger_state.value, {"bool"})
                      THEN HandlerPrints("Received pinch trigger", trigger_state.value)
                      ELSE HandlerPrints("Invalid boolean format", trigger_state.value)

\* handle_position_message (consumer.py:36-56): the decode of line 44 is
\* before the try; json.JSONDecodeError is caught at line 55
handle_position_message(body) ==
    LET message == bytes_decode(body)
    IN  IF message.raised
        THEN HandlerRaises("UnicodeDecodeError")
        ELSE LET position == json_loads(message.text)
             IN  IF position.raised
                 THEN HandlerPrints("Failed to parse position message", PyNone)
                 ELSE IF isinstance(position.value, {"list"}) /\ Len(position.value.v) = 2
                      THEN LET x == position.value.v[1]
                               y == position.value.v[2]
                           IN  IF isinstance(x, {"int", "float"})
                                    /\ isinstance(y, {"int", "float"})
                               THEN HandlerPrints("Received position", position.value)
                               ELSE HandlerPrints("Invalid position format", position.value)
                      ELSE HandlerPrints("Invalid position array format", position.value)

\* --------------------------------------------------------------- the inputs

Variants == {"hand", "pose"}

\* a hand of n landmarks with the given thumb tip and index-finger tip
MkHand(n, thumb, index) ==
    [landmarks_px |->
        [i \in 1..n |-> IF i = THUMB_TIP_IDX + 1 THEN thumb
                        ELSE IF i = INDEX_TIP_IDX + 1 THEN index
                        ELSE <<0, 0>>]]

\* the thumb tip, to the left of the frame: int(lm.x * w) for an lm.x below 0
ThumbTip == <<-8, 240>>

\* MediaPipe hands have 21 landmarks; 4 and 8 are the short arrays the
\* tracker.py helpers guard against
Hands ==
    {MkHand(21, ThumbTip, <<ThumbTip[1] + d[1], ThumbTip[2] + d[2]>>) :
        d \in {<<10, 0>>, <<24, 32>>, <<100, 0>>}}
    \cup {MkHand(8, ThumbTip, <<0, 0>>), MkHand(4, <<0, 0>>, <<0, 0>>)}

\* tracker.process(frame): a list of at most one hand (max_num_hands = 1)
HandFrames == {<<>>} \cup {<<h>> : h \in Hands}

\* a body of n keypoints
MkPose(n, nose, ls, rs, rw) ==
    [i \in 1..n |-> IF i = NOSE_IDX + 1 THEN nose
                    ELSE IF i = LEFT_SHOULDER_IDX + 1 THEN ls
                    ELSE IF i = RIGHT_SHOULDER_IDX + 1 THEN rs
                    ELSE IF i = RIGHT_WRIST_IDX + 1 THEN rw
                    ELSE <<0, 0>>]

\* the nose, so near the right edge that the right wrist, 6 or more pixels to
\* its right, is at or beyond the frame width
Nose == <<634, 100>>

\* COCO poses have 17 keypoints; 10 is an array too short for the right wrist
Poses ==
    {MkPose(17, Nose, <<Nose[1] - 5, 150>>, <<Nose[1] + 5, 150>>, <<Nose[1] + dx, Nose[2]>>) :
        dx \in {6, 7, 20}}
    \cup {MkPose(17, Nose, <<0, 0>>, <<0, 0>>, <<Nose[1] + 6, Nose[2]>>),
          MkPose(10, Nose, <<Nose[1] - 5, 150>>, <<Nose[1] + 5, 150>>, <<0, 0>>)}

\* kpts_xy: None or the keypoints of the best instance
PoseFrames == {<<>>} \cup {<<k>> : k \in Poses}

Detections(v) == IF v = "hand" THEN HandFrames ELSE PoseFrames

\* cv2.waitKey(1) & 0xFF: 'q', ESC, or no key
Keys == {113, 27, 255}

QuitKeys == {113, 27}

\* floats a position can carry: 0.25 and 0.75, and components outside [0, 1)
FloatSamples == <<(<<1, 4>>), (<<3, 4>>), (<<-8, 640>>), (<<640, 640>>)>>

\* what this program's publishers put on the exchange: the message as the
\* consumer receives it, and (sent) the Python value it was made from
PublishedTriggers ==
    [i \in 1..2 |->
        LET b == (i = 1)
            message == send_pinch_trigger(b)
        IN  [routing_key |-> message.routing_key, body |-> str_encode(message.body),
             sent |-> <<PyBool(b)>>]]

PublishedPositions ==
    [i \in 1..(Len(FloatSamples) * Len(FloatSamples)) |->
        LET x == FloatSamples[((i - 1) \div Len(FloatSamples)) + 1]
            y == FloatSamples[((i - 1) % Len(FloatSamples)) + 1]
            message == send_thumb_position(x, y)
        IN  [routing_key |-> message.routing_key, body |-> str_encode(message.body),
             sent |-> <<PyList(<<PyFloat(x), PyFloat(y)>>)>>]]

\* JSON texts of other publishers: every shape of value, and texts that are
\* not JSON
ForeignTexts ==
    << <<LexemeOf("str", "yes")>>,
       <<LexemeOf("int", 1)>>,
       <<LexemeOf("float", <<1, 2>>)>>,
       <<Lexeme("null")>>,
       <<Lexeme("true")>>,
       <<Lexeme("["), Lexeme("]")>>,
       <<Lexeme("["), LexemeOf("float", <<1, 2>>), Lexeme("]")>>,
       <<Lexeme("["), LexemeOf("int", 5), Lexeme(","), LexemeOf("int", -3), Lexeme("]")>>,
       <<Lexeme("["), LexemeOf("float", <<1, 4>>), Lexeme(","),
         LexemeOf("float", <<3, 4>>), Lexeme(","), LexemeOf("float", <<1, 2>>), Lexeme("]")>>,
       <<Lexeme("["), Lexeme("true"), Lexeme(","), Lexeme("false"), Lexeme("]")>>,
       <<Lexeme("["), LexemeOf("str", "a"), Lexeme(","), LexemeOf("float", <<1, 2>>),
         Lexeme("]")>>,
       <<Lexeme("["), LexemeOf("float", <<1, 2>>), Lexeme(","), Lexeme("null"), Lexeme("]")>>,
       <<Lexeme("["), Lexeme("["), LexemeOf("float", <<1, 2>>), Lexeme("]"), Lexeme(","),
         LexemeOf("float", <<1, 2>>), Lexeme("]")>>,
       <<Lexeme("{"), Lexeme("}")>>,
       <<Lexeme("{"), LexemeOf("str", "x"), Lexeme(":"), LexemeOf("float", <<1, 4>>),
         Lexeme("}")>>,
       <<LexemeOf("word", "yes")>>,
       <<Lexeme("["), LexemeOf("float", <<1, 4>>), Lexeme(",")>>,
       <<Lexeme("true"), Lexeme("false")>>,
       <<>> >>

\* bodies of other publishers: the texts in UTF-8, and bytes that are not UTF-8
ForeignBodies ==
    [i \in 1..(Len(ForeignTexts) + 1) |->
        IF i <= Len(ForeignTexts)
        THEN str_encode(ForeignTexts[i])
        ELSE [utf8 |-> FALSE, text |-> <<>>]]

\* the messages of other publishers, on either routing key
ForeignMessages ==
    [i \in 1..(2 * Len(ForeignBodies)) |->
        [routing_key |-> IF i <= Len(ForeignBodies)
                         THEN ROUTING_KEY_TRIGGER ELSE ROUTING_KEY_POSITION,
         body |-> ForeignBodies[((i - 1) % Len(ForeignBodies)) + 1],
         sent |-> <<>>]]

\* everything the exchange can carry
Messages == PublishedTriggers \o PublishedPositions \o ForeignMessages

\* ------------------------------------------------------------- the state

VARIABLES
    variant,                \* which program runs: main.py ("hand") or yolo.py ("pose")
    pc,                     \* where run_live is
    tracker_open,           \* the HandTracker of main.py is constructed and not closed
    camera_open,            \* the camera is acquired and not released
    setup_outcome,          \* what the broker answered to the setup ("" before it)
    rabbitmq_connection,    \* None or the connection
    rabbitmq_channel,       \* None or the channel
    connection_open,        \* the broker holds an open connection of this process
    exchange_declares,      \* exchange_declare calls the broker has received
    open_channels,          \* the channels of the connection that are open
    connect_failures,       \* "Failed to connect to RabbitMQ" lines printed
    previous_pinch_state,
    frames_read,            \* frames the camera has delivered
    detection,              \* tracked_hands (main.py) / kpts_xy (yolo.py) of this frame
    is_pinching,
    trigger_call,           \* this frame's send_pinch_trigger call: none, or message and outcome
    position_call,          \* this frame's send_thumb_position call, likewise
    scores,                 \* per frame read: None (no subject) or the score
    events,                 \* every publish attempted so far: frame and message
    marker,                 \* where draw_target_visualization has drawn on this frame, if at all
    key,                    \* None before the first waitKey, then `cv2.waitKey(1) & 0xFF`
    consumer_pc,            \* consumer.py: "consuming" in channel.start_consuming(), or "stopped"
    consumer_delivery,      \* the last message delivered, and the handler it went to
    consumer_result,        \* what that handler did with it
    consumer_console,       \* the kind of line printed for each message so far
    kpts_arg,               \* a call of yolo.py's keypoint functions: the kpts argument
    scale_result,           \* what compute_body_scale_from_kpts returned for it, if called
    score_result            \* what compute_pinch_score_from_kpts returned for it, if called

run_live_vars == <<variant, pc, marker, key, tracker_open, camera_open, exchange_declares, open_channels, setup_outcome, rabbitmq_connection, rabbitmq_channel, connection_open,
          connect_failures, previous_pinch_state, frames_read, detection,
          is_pinching, trigger_call, position_call, scores, events>>

consumer_vars == <<consumer_pc, consumer_delivery, consumer_result, consumer_console>>

measure_vars == <<kpts_arg, scale_result, score_result>>

vars == <<run_live_vars, consumer_vars, measure_vars>>

\* ------------------------------------------------- the frame loop's conditions

\* main.py:98 `if tracked_hands:`;
\* yolo.py:242 `if kpts_xy is not None and kpts_xy.shape[0] > RIGHT_WRIST_IDX:`
HasSubject(v, det) ==
    IF v = "hand"
    THEN det /= <<>>
    ELSE det /= <<>> /\ Shape0(det[1]) > RIGHT_WRIST_IDX

\* pinch_distance (main.py:100) / pinch_score (yolo.py:243)
Score(v, det) ==
    IF v = "hand"
    THEN compute_pinch_distance(det[1])
    ELSE compute_pinch_score_from_kpts(det[1])

\* mutant: less-than-or-equal
IsPinching_Inclusive(v, score) ==
    IF v = "hand"
    THEN score <= PINCH_DISTANCE_THRESHOLD
    ELSE ~FracLess(PINCH_SCORE_THRESHOLD, score)

\* main.py:101 / yolo.py:244
IsPinching(v, score) ==
    IF v = "hand"
    THEN score < PINCH_DISTANCE_THRESHOLD
    ELSE FracLess(score, PINCH_SCORE_THRESHOLD)

\* mutant: a trigger on every frame (level-triggered)
ShouldSendTrigger_EveryFrame(pinching, previous, channel) ==
    channel /= <<>>

\* mutant: the channel is not checked
ShouldSendTrigger_NoChannelCheck(pinching, previous, channel) ==
    pinching /= previous

\* mutant: only the rising edge is reported
ShouldSendTrigger_RisingOnly(pinching, previous, channel) ==
    pinching /\ ~previous /\ channel /= <<>>

\* mutant: only the falling edge is reported
ShouldSendTrigger_FallingOnly(pinching, previous, channel) ==
    ~pinching /\ previous /\ channel /= <<>>

\* main.py:103 / yolo.py:247
ShouldSendTrigger(pinching, previous, channel) ==
    pinching /= previous /\ channel /= <<>>

\* mutant: the position is sent on every active frame
ShouldSendPosition_WhileActive(pinching, previous, channel) ==
    pinching /\ channel /= <<>>

\* main.py:109 / yolo.py:254
ShouldSendPosition(pinching, previous, channel) ==
    pinching /\ ~previous /\ channel /= <<>>

\* mutant: every no-subject frame reports the reset
ShouldSendReset_EveryFrame(previous, channel) ==
    channel /= <<>>

\* main.py:133 / yolo.py:285
ShouldSendReset(previous, channel) ==
    previous /\ channel /= <<>>

\* mutant: the position is computed from the point the marker is drawn at
NormalizedPosition_PinchPoint(v, det) ==
    LET px == IF v = "hand"
              THEN get_pinch_point(det[1])
              ELSE get_pinch_point_from_kpts(det[1])
    IN  <<(<<px[1], FrameWidth>>), (<<px[2], FrameHeight>>)>>

\* mutant: each coordinate is clamped to the frame before the division
NormalizedPosition_Clamped(v, det) ==
    LET px == IF v = "hand"
              THEN get_thumb_tip_position(det[1])
              ELSE get_hand_position_from_kpts(det[1])
        clamp(c, size) == IF c < 0 THEN 0 ELSE IF c > size THEN size ELSE c
    IN  <<(<<clamp(px[1], FrameWidth), FrameWidth>>),
          (<<clamp(px[2], FrameHeight), FrameHeight>>)>>

\* main.py:111-114 / yolo.py:256-259: the anchor divided by the frame size,
\* each component the fraction <<pixels, size>>
NormalizedPosition(v, det) ==
    LET px == IF v = "hand"
              THEN get_thumb_tip_position(det[1])
              ELSE get_hand_position_from_kpts(det[1])
    IN  <<(<<px[1], FrameWidth>>), (<<px[2], FrameHeight>>)>>

\* mutant: ESC is not an exit key
IsQuitKey_QOnly(k) == k = 113

\* `key in (ord("q"), 27)`
IsQuitKey(k) == k \in QuitKeys

\* the frame's classification: is_pinching with a subject, false without
ActiveNow == HasSubject(variant, detection) /\ is_pinching

\* --------------------------------------------------------------- run_live

\* run_live and the consumer at their start
Started ==
    /\ variant \in Variants
    /\ pc = "camera"
    /\ tracker_open = (variant = "hand")
    /\ camera_open = FALSE
    /\ setup_outcome = ""
    /\ rabbitmq_connection = <<>>
    /\ rabbitmq_channel = <<>>
    /\ connection_open = FALSE
    /\ exchange_declares = 0
    /\ open_channels = {}
    /\ connect_failures = 0
    /\ previous_pinch_state = FALSE
    /\ frames_read = 0
    /\ detection = <<>>
    /\ is_pinching = FALSE
    /\ trigger_call = <<>>
    /\ position_call = <<>>
    /\ scores = <<>>
    /\ events = <<>>
    /\ marker = <<>>
    /\ key = <<>>
    /\ consumer_pc = "consuming"
    /\ consumer_delivery = <<>>
    /\ consumer_result = <<>>
    /\ consumer_console = <<>>

Init ==
    /\ Started
    /\ kpts_arg = <<>>
    /\ scale_result = <<>>
    /\ score_result = <<>>

\* main.py:32-61 / yolo.py:139-165: the camera is opened, or the setup raises
\* RuntimeError, which leaves run_live at once: these lines are before the
\* try/finally
SetupCamera ==
    /\ pc = "camera"
    /\ \E outcome \in CameraOutcomes :
          IF outcome = "opened"
          THEN camera_open' = TRUE /\ pc' = "setup"
          ELSE camera_open' = FALSE /\ pc' = "raised"
    /\ UNCHANGED <<consumer_vars, measure_vars, key, marker, variant, tracker_open, exchange_declares, open_channels,
                   setup_outcome, rabbitmq_connection, rabbitmq_channel,
                   connection_open, connect_failures, previous_pinch_state,
                   frames_read, detection, is_pinching, trigger_call,
                   position_call, scores, events>>

\* main.py:63-73 / yolo.py:170-180
SetupRabbitMQ ==
    /\ pc = "setup"
    /\ \E outcome \in SetupOutcomes :
          LET r == setup_rabbitmq_connection(outcome)
          IN  /\ setup_outcome' = outcome
              /\ connection_open' = r.opened
              /\ exchange_declares' = r.declares
              /\ open_channels' = r.open_channels
              /\ IF r.raised
                 THEN /\ rabbitmq_connection' = <<>>
                      /\ rabbitmq_channel' = <<>>
                      /\ connect_failures' = connect_failures + 1
                 ELSE /\ rabbitmq_connection' = r.connection
                      /\ rabbitmq_channel' = r.channel
                      /\ UNCHANGED connect_failures
    /\ previous_pinch_state' = FALSE
    /\ pc' = "read"
    /\ UNCHANGED <<consumer_vars, measure_vars, key, marker, variant, tracker_open, camera_open, frames_read, detection, is_pinching, trigger_call,
                   position_call, scores, events>>

\* main.py:84-101 / yolo.py:195-244: a frame is read and measured
ReadFrame ==
    /\ pc = "read"
    /\ frames_read < MaxFrames
    /\ \E det \in Detections(variant) :
          /\ detection' = det
          /\ IF HasSubject(variant, det)
             THEN /\ is_pinching' = IsPinching(variant, Score(variant, det))
                  /\ scores' = Append(scores, <<Score(variant, det)>>)
             ELSE /\ UNCHANGED is_pinching
                  /\ scores' = Append(scores, <<>>)
    /\ frames_read' = frames_read + 1
    /\ trigger_call' = <<>>
    /\ position_call' = <<>>
    /\ marker' = <<>>
    /\ pc' = "trigger"
    /\ UNCHANGED <<consumer_vars, measure_vars, key, variant, tracker_open, camera_open, exchange_declares, open_channels, setup_outcome, rabbitmq_connection, rabbitmq_channel, connection_open,
                   connect_failures, previous_pinch_state, events>>

\* main.py:85-87 / yolo.py:196-198: cap.read() fails
ReadFails ==
    /\ pc = "read"
    /\ pc' = "cleanup"
    /\ UNCHANGED <<consumer_vars, measure_vars, key, marker, variant, tracker_open, camera_open, exchange_declares, open_channels, setup_outcome, rabbitmq_connection, rabbitmq_channel, connection_open,
                   connect_failures, previous_pinch_state, frames_read, detection,
                   is_pinching, trigger_call, position_call, scores, events>>

\* What channel.basic_publish can do on the channel the loop holds: return or
\* raise while the channel is open on an open connection, only raise once it
\* is not.
BasicPublishOutcomes ==
    IF connection_open /\ rabbitmq_channel /= <<>> /\ rabbitmq_channel[1] \in open_channels
    THEN PublishOutcomes
    ELSE {"failed"}

\* mutant: no except clause, a failing call leaves the loop
Publish_Uncaught(call, message, next_pc) ==
    \E outcome \in BasicPublishOutcomes :
        /\ call' = <<[message |-> message, outcome |-> outcome]>>
        /\ events' = Append(events, [frame |-> frames_read, message |-> message])
        /\ pc' = IF outcome = "failed" THEN "cleanup" ELSE next_pc

\* One guarded publish, `try: send(...) except Exception as e: console.print(...)`:
\* the call is recorded with its outcome, and whether it returned or raised,
\* control goes on to the statement after the try (next_pc).
Publish(call, message, next_pc) ==
    \E outcome \in BasicPublishOutcomes :
        /\ call' = <<[message |-> message, outcome |-> outcome]>>
        /\ events' = Append(events, [frame |-> frames_read, message |-> message])
        /\ pc' = next_pc

\* main.py:103-107 / yolo.py:247-251
SendTrigger ==
    /\ pc = "trigger"
    /\ HasSubject(variant, detection)
    /\ IF ShouldSendTrigger(is_pinching, previous_pinch_state, rabbitmq_channel)
       THEN Publish(trigger_call, send_pinch_trigger(is_pinching), "position")
       ELSE /\ pc' = "position"
            /\ UNCHANGED <<trigger_call, events>>
    /\ UNCHANGED <<consumer_vars, measure_vars, key, marker, variant, tracker_open, camera_open, exchange_declares, open_channels, setup_outcome, rabbitmq_connection, rabbitmq_channel, connection_open,
                   connect_failures, previous_pinch_state, frames_read, detection,
                   is_pinching, position_call, scores>>

\* mutant: the body-pose loop sends the position on every active frame
SendPosition_PoseWhileActive ==
    /\ pc = "position"
    /\ IF \/ ShouldSendPosition(is_pinching, previous_pinch_state, rabbitmq_channel)
          \/ /\ variant = "pose"
             /\ ShouldSendPosition_WhileActive(is_pinching, previous_pinch_state, rabbitmq_channel)
       THEN LET pos == NormalizedPosition(variant, detection)
            IN  Publish(position_call, send_thumb_position(pos[1], pos[2]), "store")
       ELSE /\ pc' = "store"
            /\ UNCHANGED <<position_call, events>>
    /\ UNCHANGED <<consumer_vars, measure_vars, key, marker, variant, tracker_open, camera_open, exchange_declares, open_channels, setup_outcome, rabbitmq_connection, rabbitmq_channel, connection_open,
                   connect_failures, previous_pinch_state, frames_read, detection,
                   is_pinching, trigger_call, scores>>

\* mutant: the position publish is made twice
SendPosition_Twice ==
    /\ pc = "position"
    /\ IF ShouldSendPosition(is_pinching, previous_pinch_state, rabbitmq_channel)
       THEN LET pos == NormalizedPosition(variant, detection)
            IN  Publish(position_call, send_thumb_position(pos[1], pos[2]),
                        IF position_call = <<>> THEN "position" ELSE "store")
       ELSE /\ pc' = "store"
            /\ UNCHANGED <<position_call, events>>
    /\ UNCHANGED <<consumer_vars, measure_vars, key, marker, variant, tracker_open, camera_open, exchange_declares, open_channels, setup_outcome, rabbitmq_connection, rabbitmq_channel, connection_open,
                   connect_failures, previous_pinch_state, frames_read, detection,
                   is_pinching, trigger_call, scores>>

\* main.py:109-117 / yolo.py:254-267
SendPosition ==
    /\ pc = "position"
    /\ IF ShouldSendPosition(is_pinching, previous_pinch_state, rabbitmq_channel)
       THEN LET pos == NormalizedPosition(variant, detection)
            IN  Publish(position_call, send_thumb_position(pos[1], pos[2]), "store")
       ELSE /\ pc' = "store"
            /\ UNCHANGED <<position_call, events>>
    /\ UNCHANGED <<consumer_vars, measure_vars, key, marker, variant, tracker_open, camera_open, exchange_declares, open_channels, setup_outcome, rabbitmq_connection, rabbitmq_channel, connection_open,
                   connect_failures, previous_pinch_state, frames_read, detection,
                   is_pinching, trigger_call, scores>>

\* main.py:119-121 / yolo.py:270-272: the point the target is drawn at
PinchPoint(v, det) ==
    IF v = "hand"
    THEN get_pinch_point(det[1])
    ELSE get_pinch_point_from_kpts(det[1])

\* mutant: the state is stored only when the frame's trigger was delivered
StoreState_OnDelivery ==
    /\ pc = "store"
    /\ marker' = IF is_pinching THEN <<PinchPoint(variant, detection)>> ELSE <<>>
    /\ previous_pinch_state' =
          IF trigger_call /= <<>> /\ trigger_call[1].outcome = "failed"
          THEN previous_pinch_state
          ELSE is_pinching
    /\ pc' = "waitkey"
    /\ UNCHANGED <<consumer_vars, measure_vars, key, variant, tracker_open, camera_open, exchange_declares, open_channels, setup_outcome, rabbitmq_connection, rabbitmq_channel, connection_open,
                   connect_failures, frames_read, detection, is_pinching,
                   trigger_call, position_call, scores, events>>

\* main.py:119-123 / yolo.py:270-274: the marker is drawn on an active frame,
\* then the state is stored
StoreState ==
    /\ pc = "store"
    /\ marker' = IF is_pinching THEN <<PinchPoint(variant, detection)>> ELSE <<>>
    /\ previous_pinch_state' = is_pinching
    /\ pc' = "waitkey"
    /\ UNCHANGED <<consumer_vars, measure_vars, key, variant, tracker_open, camera_open, exchange_declares, open_channels, setup_outcome, rabbitmq_connection, rabbitmq_channel, connection_open,
                   connect_failures, frames_read, detection, is_pinching,
                   trigger_call, position_call, scores, events>>

\* main.py:132-137 / yolo.py:283-289: no subject in the frame
ResetOnNoSubject ==
    /\ pc = "trigger"
    /\ ~HasSubject(variant, detection)
    /\ IF ShouldSendReset(previous_pinch_state, rabbitmq_channel)
       THEN Publish(trigger_call, send_pinch_trigger(FALSE), "reset")
       ELSE /\ pc' = "waitkey"
            /\ UNCHANGED <<trigger_call, events>>
    /\ UNCHANGED <<consumer_vars, measure_vars, key, marker, variant, tracker_open, camera_open, exchange_declares, open_channels, setup_outcome, rabbitmq_connection, rabbitmq_channel,
                   connection_open, connect_failures, previous_pinch_state,
                   frames_read, detection, is_pinching, position_call, scores>>

\* mutant: the state is not cleared after the reset trigger
ResetState_Keeps ==
    /\ pc = "reset"
    /\ pc' = "waitkey"
    /\ UNCHANGED <<consumer_vars, measure_vars, key, marker, variant, tracker_open, camera_open, exchange_declares, open_channels, setup_outcome, rabbitmq_connection, rabbitmq_channel,
                   connection_open, connect_failures, frames_read, detection,
                   is_pinching, trigger_call, position_call, scores, events,
                   previous_pinch_state>>

\* main.py:138 / yolo.py:290: the store inside the same `if`, after the try
ResetState ==
    /\ pc = "reset"
    /\ previous_pinch_state' = FALSE
    /\ pc' = "waitkey"
    /\ UNCHANGED <<consumer_vars, measure_vars, key, marker, variant, tracker_open, camera_open, exchange_declares, open_channels, setup_outcome, rabbitmq_connection, rabbitmq_channel,
                   connection_open, connect_failures, frames_read, detection,
                   is_pinching, trigger_call, position_call, scores, events>>

\* mutant: the broker is set up again before every frame
WaitKey_Reconnect ==
    /\ pc = "waitkey"
    /\ \E k \in Keys :
          /\ key' = <<k>>
          /\ pc' = IF IsQuitKey(k) THEN "cleanup" ELSE "setup"
    /\ UNCHANGED <<consumer_vars, measure_vars, marker, variant, tracker_open, camera_open, exchange_declares, open_channels, setup_outcome, rabbitmq_connection, rabbitmq_channel, connection_open,
                   connect_failures, previous_pinch_state, frames_read, detection,
                   is_pinching, trigger_call, position_call, scores, events>>

\* main.py:151-154 / yolo.py:306-309
WaitKey ==
    /\ pc = "waitkey"
    /\ \E k \in Keys :
          /\ key' = <<k>>
          /\ pc' = IF IsQuitKey(k) THEN "cleanup" ELSE "read"
    /\ UNCHANGED <<consumer_vars, measure_vars, marker, variant, tracker_open, camera_open, exchange_declares, open_channels, setup_outcome, rabbitmq_connection, rabbitmq_channel, connection_open,
                   connect_failures, previous_pinch_state, frames_read, detection,
                   is_pinching, trigger_call, position_call, scores, events>>

\* main.py:76-155 / yolo.py:184-311: an exception is raised inside the `try`
\* and is caught by nothing in it: KeyboardInterrupt at any statement of the
\* loop (the `except Exception` clauses of the publishes do not catch it), or
\* an error of capture_array, cvtColor, tracker.process or the pose model
\* while the frame is acquired and measured. The loop has no `except` of its
\* own, so control goes to the `finally` block with the exception pending.
LoopRaises ==
    /\ pc \in {"read", "trigger", "position", "store", "reset", "waitkey"}
    /\ pc' = "cleanup_raising"
    /\ UNCHANGED <<consumer_vars, measure_vars, key, marker, variant, tracker_open, camera_open, exchange_declares, open_channels, setup_outcome, rabbitmq_connection, rabbitmq_channel, connection_open,
                   connect_failures, previous_pinch_state, frames_read, detection,
                   is_pinching, trigger_call, position_call, scores, events>>

\* main.py:155-164 / yolo.py:311-320: the `finally` block, entered after a
\* `break` ("cleanup") or with an exception pending ("cleanup_raising"); after
\* it run_live returns, or the pending exception goes on to the caller
Cleanup ==
    /\ pc \in {"cleanup", "cleanup_raising"}
    /\ IF rabbitmq_connection /= <<>> /\ connection_open
       THEN /\ connection_open' = FALSE
            /\ open_channels' = {}
       ELSE UNCHANGED <<connection_open, open_channels>>
    /\ tracker_open' = FALSE
    /\ camera_open' = FALSE
    /\ pc' = IF pc = "cleanup_raising" THEN "raised" ELSE "done"
    /\ UNCHANGED <<consumer_vars, measure_vars, key, marker, variant, exchange_declares, setup_outcome, rabbitmq_connection, rabbitmq_channel, connect_failures,
                   previous_pinch_state, frames_read, detection, is_pinching,
                   trigger_call, position_call, scores, events>>

\* The connection to the broker is lost while run_live is between the setup
\* and the end of its cleanup: from then on rabbitmq_connection.is_closed is
\* true and every channel of the connection is closed.
ConnectionLost ==
    /\ pc \notin {"camera", "setup", "done", "raised"}
    /\ connection_open
    /\ connection_open' = FALSE
    /\ open_channels' = {}
    /\ UNCHANGED <<consumer_vars, measure_vars, key, marker, variant, tracker_open, camera_open, exchange_declares, pc, setup_outcome, rabbitmq_connection,
                   rabbitmq_channel, connect_failures, previous_pinch_state,
                   frames_read, detection, is_pinching, trigger_call,
                   position_call, scores, events>>

Next ==
    \/ SetupCamera
    \/ SetupRabbitMQ
    \/ ReadFrame
    \/ ReadFails
    \/ SendTrigger
    \/ SendPosition
    \/ StoreState
    \/ ResetOnNoSubject
    \/ ResetState
    \/ WaitKey
    \/ LoopRaises
    \/ Cleanup
    \/ ConnectionLost

Spec == Init /\ [][Next]_vars

\* ------------------------------------------------- consumer.py's process

\* pika calls the handler with the body; when the handler returns the consumer
\* waits for the next message; an exception of the handler leaves
\* channel.start_consuming() and start_consuming, and the `except Exception`
\* of consumer.py:113-116 prints it, closes the connection and the process ends
Handle(handler, message, result) ==
    /\ consumer_delivery' = <<[handler |-> handler, message |-> message]>>
    /\ consumer_result' = <<result>>
    /\ consumer_console' = Append(consumer_console, result.printed)
    /\ consumer_pc' = IF result.raised THEN "stopped" ELSE "consuming"

\* consumer.py:63-69, 83-87: a message with the trigger routing key arrives in
\* the queue bound to it and is handed to handle_trigger_message
HandleTrigger ==
    /\ consumer_pc = "consuming"
    /\ Len(consumer_console) < MaxMessages
    /\ \E i \in DOMAIN Messages :
          /\ Messages[i].routing_key = ROUTING_KEY_TRIGGER
          /\ Handle("handle_trigger_message", Messages[i],
                    handle_trigger_message(Messages[i].body))
    /\ UNCHANGED <<run_live_vars, measure_vars>>

\* consumer.py:71-78, 89-93: likewise for the position routing key and
\* handle_position_message
HandlePosition ==
    /\ consumer_pc = "consuming"
    /\ Len(consumer_console) < MaxMessages
    /\ \E i \in DOMAIN Messages :
          /\ Messages[i].routing_key = ROUTING_KEY_POSITION
          /\ Handle("handle_position_message", Messages[i],
                    handle_position_message(Messages[i].body))
    /\ UNCHANGED <<run_live_vars, measure_vars>>

\* consumer.py:109-112: CTRL+C
ConsumerInterrupted ==
    /\ consumer_pc = "consuming"
    /\ consumer_pc' = "stopped"
    /\ UNCHANGED <<consumer_delivery, consumer_result, consumer_console>>
    /\ UNCHANGED <<run_live_vars, measure_vars>>

ConsumerNext ==
    \/ HandleTrigger
    \/ HandlePosition
    \/ ConsumerInterrupted

ConsumerSpec == Init /\ [][ConsumerNext]_vars

\* ------------------------------------- yolo.py's keypoint functions, called

\* the keypoint arrays the functions are called with, in units of 1e-4 pixel:
\* 5 and 6 keypoints have no shoulder pair, 7 and 10 have the shoulders and
\* no right wrist, 11 and 17 have both; the shoulders are 0 to MaxGap units
\* apart, the right wrist 0 or 5 units from the nose
ScalePoses ==
    {MkPose(n, <<0, 30>>, <<gap, 0>>, <<0, 0>>, <<0, 30 + reach>>) :
        n \in {5, 6, 7, 10, 11, 17}, gap \in 0..MaxGap, reach \in {0, 5}}

ScaleInit ==
    /\ Started
    /\ variant = "pose"
    /\ kpts_arg \in {<<k>> : k \in ScalePoses}
    /\ scale_result = <<>>
    /\ score_result = <<>>

\* body_scale = compute_body_scale_from_kpts(kpts)
CallBodyScale ==
    /\ scale_result = <<>>
    /\ scale_result' = <<compute_body_scale_from_kpts_in(kpts_arg[1], UnitsPerPixel)>>
    /\ UNCHANGED <<run_live_vars, consumer_vars, kpts_arg, score_result>>

\* pinch_score = compute_pinch_score_from_kpts(kpts)
CallPinchScore ==
    /\ score_result = <<>>
    /\ score_result' = <<compute_pinch_score_from_kpts_in(kpts_arg[1], UnitsPerPixel)>>
    /\ UNCHANGED <<run_live_vars, consumer_vars, kpts_arg, scale_result>>

ScaleNext ==
    \/ CallBodyScale
    \/ CallPinchScore

ScaleSpec == ScaleInit /\ [][ScaleNext]_vars

\* ============================================================ the claims

\* what the claims read off the state

\* the events attempted while frame i was processed, in order
EventsOfFrame(i) == SelectSeq(events, LAMBDA e : e.frame = i)

\* frame i has been processed to the end of its gesture logic
FrameDone(i) ==
    \/ i < frames_read
    \/ i = frames_read /\ pc \in {"waitkey", "read", "cleanup", "done"}

\* the wire form of a trigger with the given payload
TriggerMessage(active) ==
    [routing_key |-> "RADr.Handout.Trigger",
     body |-> <<[k |-> IF active THEN "true" ELSE "false", v |-> <<>>]>>]

IsTrigger(message) == message.routing_key = "RADr.Handout.Trigger"

IsPosition(message) == message.routing_key = "RABBITMQ_ROUTING_KEY_POSITION"

WorkingChannel == pc \notin {"camera", "setup"} /\ rabbitmq_channel /= <<>>

\* the hand scores of Scenario A
ScenarioA == <<(<<100>>), (<<100>>), (<<10>>), (<<10>>), (<<100>>)>>

RanScenarioA ==
    /\ variant = "hand"
    /\ WorkingChannel
    /\ Len(scores) >= 5
    /\ SubSeq(scores, 1, 5) = ScenarioA
    /\ FrameDone(5)

\* C1, step: with a working channel, the step that takes frame i's trigger
\* decision attempts a trigger publish iff the frame's active_now differs from
\* the state stored after frame i-1, and the payload is active_now.
C1_EdgeStep ==
    (pc = "trigger" /\ pc' \notin {pc, "cleanup_raising"} /\ rabbitmq_channel /= <<>>) =>
        /\ (trigger_call' /= <<>>) <=> (ActiveNow /= previous_pinch_state)
        /\ trigger_call' /= <<>> =>
              /\ trigger_call'[1].message = TriggerMessage(ActiveNow)
              /\ events' = Append(events, [frame |-> frames_read,
                                           message |-> TriggerMessage(ActiveNow)])
        /\ trigger_call' = <<>> => events' = events

\* C1, example: scores [100,100,10,10,100] with threshold 40 give no event on
\* frames 1-2, Trigger(true) and a position on frame 3, none on frame 4 and
\* Trigger(false) on frame 5.
C1_ScenarioA ==
    RanScenarioA =>
        LET es == SelectSeq(events, LAMBDA e : e.frame <= 5)
        IN  /\ Len(es) = 3
            /\ es[1] = [frame |-> 3, message |-> TriggerMessage(TRUE)]
            /\ es[2].frame = 3 /\ IsPosition(es[2].message)
            /\ es[3] = [frame |-> 5, message |-> TriggerMessage(FALSE)]

\* C1: with a working broker channel a trigger publish is attempted on frame i
\* if and only if active_now(i) differs from the activation state stored after
\* frame i-1 (initially false), its payload is active_now(i), and Scenario A
\* gives exactly Trigger(true) on frame 3 and Trigger(false) on frame 5.
C1_TriggerOnEdge == [][C1_EdgeStep]_vars /\ []C1_ScenarioA

\* C1 witness: Scenario A has run to the end of frame 5 on a working channel.
C1_Witness == RanScenarioA /\ frames_read = 5 /\ pc = "waitkey" /\ Len(events) = 3

\* the events a step adds
NewEvents == SubSeq(events', Len(events) + 1, Len(events'))

PositionAttemptedInStep == \E i \in DOMAIN NewEvents : IsPosition(NewEvents[i].message)

\* C2: with a working broker channel a position publish is attempted on frame i
\* if and only if frame i has attempted a trigger publish with payload true and
\* the state stored after frame i-1 was false; no other step of the loop (an
\* ACTIVE->IDLE edge, a steady-state frame, a no-subject frame) attempts one.
C2_PositionOnRisingEdge ==
    [][rabbitmq_channel /= <<>> =>
        (PositionAttemptedInStep <=>
            /\ pc = "position" /\ pc' = "store"
            /\ trigger_call /= <<>>
            /\ trigger_call[1].message = TriggerMessage(TRUE)
            /\ previous_pinch_state = FALSE)]_vars

\* C2 witness: a position publish has been attempted right after a Trigger(true)
\* while the stored state was still false.
C2_Witness ==
    /\ WorkingChannel
    /\ pc = "store"
    /\ position_call /= <<>>
    /\ trigger_call /= <<>>
    /\ trigger_call[1].message = TriggerMessage(TRUE)
    /\ previous_pinch_state = FALSE

\* C3 as claimed: whenever a position message has been successfully published
\* in a frame, a trigger message with payload true has been successfully
\* published in that frame.
C3_PositionNeverWithoutDeliveredTrigger ==
    (position_call /= <<>> /\ position_call[1].outcome = "ok") =>
        /\ trigger_call /= <<>>
        /\ trigger_call[1].outcome = "ok"
        /\ trigger_call[1].message = TriggerMessage(TRUE)

\* C3 amended: in every execution, whenever a position publish has been
\* attempted in a frame (whatever its outcome), a trigger publish with payload
\* true has been attempted before it in that same frame.
C3_PositionNeverWithoutAttemptedTrigger ==
    position_call /= <<>> =>
        /\ trigger_call /= <<>>
        /\ trigger_call[1].message = TriggerMessage(TRUE)
        /\ Len(events) >= 2
        /\ events[Len(events) - 1] =
              [frame |-> frames_read, message |-> TriggerMessage(TRUE)]
        /\ events[Len(events)] =
              [frame |-> frames_read, message |-> position_call[1].message]

\* C3 witness: the position reached the broker although the trigger publish of
\* the same frame failed.
C3_Witness ==
    /\ position_call /= <<>> /\ position_call[1].outcome = "ok"
    /\ trigger_call /= <<>> /\ trigger_call[1].outcome = "failed"

\* a required landmark index is out of range: the thumb/index-tip pair of a
\* hand, the nose/right-wrist pair of a body
MissingRequired(v, det) ==
    /\ det /= <<>>
    /\ IF v = "hand"
       THEN Shape0(det[1].landmarks_px) <= 8
       ELSE Shape0(det[1]) <= 10

\* C4 as claimed: for a landmark input that lacks a required landmark index the
\* score function returns a score that classifies as not active for the
\* variant's threshold, and the frame loop classifies the frame as not active.
C4_MissingLandmarksNotActive ==
    MissingRequired(variant, detection) =>
        /\ ~IsPinching(variant, Score(variant, detection))
        /\ ~ActiveNow

\* C5 as claimed: after the loop has processed a frame, the stored activation
\* state is false if the frame reported no subject and equals the frame's
\* active_now if it reported one, whether publishing is enabled or not.
C5_StoredStateFollowsFrame ==
    pc = "waitkey" => previous_pinch_state = ActiveNow

\* a score below the variant's threshold (40 pixels; 0.7 as 7/10)
BelowThreshold(s) ==
    /\ s /= <<>>
    /\ IF variant = "hand" THEN s[1] < 40 ELSE s[1][1] * 10 < 7 * s[1][2]

\* a score exactly at the variant's threshold
AtThreshold(s) ==
    /\ s /= <<>>
    /\ IF variant = "hand" THEN s[1] = 40 ELSE s[1][1] * 10 = 7 * s[1][2]

\* C6: with a working channel, a no-subject frame that follows an active frame
\* attempts exactly one publish, Trigger(false), and every further no-subject
\* frame of the run attempts none; whatever the outcome of that one call, the
\* stored state is false once a no-subject frame has been processed.
C6_OneResetPerLostSubject ==
    /\ \A i \in 2..Len(scores) :
          (WorkingChannel /\ FrameDone(i) /\ scores[i] = <<>>) =>
              /\ BelowThreshold(scores[i - 1]) =>
                    EventsOfFrame(i) =
                        <<[frame |-> i, message |-> TriggerMessage(FALSE)]>>
              /\ scores[i - 1] = <<>> => EventsOfFrame(i) = <<>>
    /\ (WorkingChannel /\ pc = "waitkey" /\ ~HasSubject(variant, detection)) =>
          previous_pinch_state = FALSE

\* C6 witness: an active frame and then two no-subject frames on a working
\* channel, with one Trigger(false) on the first and nothing on the second.
C6_Witness ==
    /\ WorkingChannel
    /\ frames_read = 3 /\ pc = "waitkey"
    /\ BelowThreshold(scores[1])
    /\ scores[2] = <<>> /\ scores[3] = <<>>
    /\ EventsOfFrame(2) = <<[frame |-> 2, message |-> TriggerMessage(FALSE)]>>
    /\ EventsOfFrame(3) = <<>>
    /\ previous_pinch_state = FALSE

\* C7, step: while a frame whose active_now equals the stored state is
\* processed, no publish is attempted and the stored state does not change.
C7_SteadyStep ==
    (pc \in {"trigger", "position", "store", "reset"}
        /\ ActiveNow = previous_pinch_state) =>
        /\ events' = events
        /\ trigger_call' = <<>>
        /\ position_call' = <<>>
        /\ previous_pinch_state' = previous_pinch_state

\* C7, run: on a working channel the frame that activates attempts exactly one
\* Trigger(true) (and the position), and a frame that repeats the score of the
\* frame before it attempts nothing.
C7_SteadyRun ==
    \A i \in 1..Len(scores) :
        (WorkingChannel /\ FrameDone(i) /\ scores[i] /= <<>>) =>
            /\ (i > 1 /\ scores[i] = scores[i - 1]) => EventsOfFrame(i) = <<>>
            /\ (BelowThreshold(scores[i])
                    /\ (i = 1 \/ ~BelowThreshold(scores[i - 1]))) =>
                  /\ Len(EventsOfFrame(i)) = 2
                  /\ EventsOfFrame(i)[1].message = TriggerMessage(TRUE)
                  /\ IsPosition(EventsOfFrame(i)[2].message)

\* C7: a frame whose active_now equals the stored activation state attempts no
\* publish of either kind and leaves the stored state unchanged, so a constant
\* below-threshold score yields one Trigger(true), on the activating frame,
\* and nothing on the frames that repeat it.
C7_SteadyFramesAreSilent == [][C7_SteadyStep]_vars /\ []C7_SteadyRun

\* C7 witness: the same below-threshold score three frames in a row on a working
\* channel, with the only two events on the first of them.
C7_Witness ==
    /\ WorkingChannel
    /\ frames_read = 3 /\ pc = "waitkey"
    /\ BelowThreshold(scores[1])
    /\ scores[2] = scores[1] /\ scores[3] = scores[1]
    /\ Len(events) = 2 /\ EventsOfFrame(1) = events

\* C8: for a frame with a subject, is_pinching is true iff the score is
\* strictly below the threshold; a score equal to the threshold (40 for hands,
\* 0.7 for body pose) is not active and, coming from IDLE, emits no event.
C8_StrictThreshold ==
    /\ (frames_read >= 1 /\ HasSubject(variant, detection)) =>
          /\ is_pinching <=> BelowThreshold(scores[frames_read])
          /\ AtThreshold(scores[frames_read]) => ~is_pinching
    /\ \A i \in 1..Len(scores) :
          (FrameDone(i) /\ AtThreshold(scores[i])
              /\ (i = 1 \/ ~BelowThreshold(scores[i - 1]))) =>
              EventsOfFrame(i) = <<>>

\* C8 witness: a first frame whose hand score is exactly 40 has been processed
\* on a working channel, and nothing was published.
C8_Witness ==
    /\ variant = "hand"
    /\ WorkingChannel
    /\ frames_read = 1 /\ pc = "waitkey"
    /\ scores = <<(<<40>>)>>
    /\ ~previous_pinch_state
    /\ events = <<>>

\* a publish call of this step has raised
PublishFailedInStep ==
    \/ /\ trigger_call' /= trigger_call
       /\ trigger_call' /= <<>>
       /\ trigger_call'[1].outcome = "failed"
    \/ /\ position_call' /= position_call
       /\ position_call' /= <<>>
       /\ position_call'[1].outcome = "failed"

\* C9, step: a publish call that fails leaves the loop running at the statement
\* after its try block; the loop is only left from the frame read and from the
\* key check.
C9_FailureStep ==
    /\ PublishFailedInStep =>
          /\ pc' = (IF pc = "position" THEN "store"
                    ELSE IF HasSubject(variant, detection) THEN "position"
                    ELSE "reset")
          /\ frames_read' = frames_read
    /\ (pc' = "cleanup" /\ pc /= "cleanup") => pc \in {"read", "waitkey"}

\* C9, frame: after a failed Trigger(true) the position publish of the frame is
\* still attempted; no event is attempted twice in a frame; and after a failed
\* call the loop can read the next frame.
C9_FailureFrame ==
    /\ (pc \in {"store", "waitkey", "read"}
          /\ trigger_call /= <<>>
          /\ trigger_call[1].outcome = "failed"
          /\ trigger_call[1].message = TriggerMessage(TRUE)) =>
          position_call /= <<>>
    /\ \A i \in 1..frames_read :
          /\ Len(SelectSeq(EventsOfFrame(i), LAMBDA e : IsTrigger(e.message))) <= 1
          /\ Len(SelectSeq(EventsOfFrame(i), LAMBDA e : IsPosition(e.message))) <= 1
    /\ (pc = "read" /\ frames_read < MaxFrames
          /\ trigger_call /= <<>> /\ trigger_call[1].outcome = "failed") =>
          ENABLED ReadFrame

\* C9: a failing publish call never terminates the main loop: it is caught for
\* that call alone, the event is dropped, the other publish of the frame is
\* still attempted, and the loop goes on to the next frame.
C9_PublishFailureIsContained == [][C9_FailureStep]_vars /\ []C9_FailureFrame

\* C9 witness: both publishes of a frame have failed and the loop is back at
\* the frame read.
C9_Witness ==
    /\ pc = "read"
    /\ frames_read >= 1 /\ frames_read < MaxFrames
    /\ trigger_call /= <<>> /\ trigger_call[1].outcome = "failed"
    /\ position_call /= <<>> /\ position_call[1].outcome = "failed"

SetupFailed == setup_outcome \in {"connect_error", "declare_error", "declare_lost"}

\* C10: if broker setup fails, the frame loop still starts, no publish call is
\* ever attempted, and the failure is logged exactly once.
C10_SetupFailureDisablesPublishing ==
    /\ [][pc = "setup" => pc' = "read"]_vars
    /\ [](connect_failures <= 1)
    /\ [](SetupFailed =>
            /\ connect_failures = 1
            /\ events = <<>>
            /\ trigger_call = <<>>
            /\ position_call = <<>>)

\* C10 witness: after a failed setup the loop is in its second frame, on a
\* rising edge, and nothing has been published.
C10_Witness ==
    /\ SetupFailed
    /\ frames_read >= 2
    /\ pc = "store"
    /\ is_pinching /\ ~previous_pinch_state
    /\ events = <<>>

\* the step in which setup_rabbitmq_connection runs with the given answer
SetupStepWith(outcomes) == pc = "setup" /\ setup_outcome' \in outcomes

\* C11, step: on the 406 conflict the setup returns the connection and the
\* second channel, which is open while the refused first one is not; the
\* exchange has been declared once; nothing is logged as a connection failure.
C11_RecoveryStep ==
    SetupStepWith({"declare_conflict"}) =>
        /\ rabbitmq_connection' = <<"connection">>
        /\ connection_open'
        /\ rabbitmq_channel' = <<2>>
        /\ open_channels' = {2}
        /\ exchange_declares' = 1
        /\ connect_failures' = connect_failures
        /\ pc' = "read"

\* C11: when exchange_declare fails with reply code 406, the setup opens a
\* fresh channel on the same connection, does not declare the exchange again,
\* and returns the connection and the new open channel; no exception reaches
\* the caller.
C11_ConflictIsRecovered == [][C11_RecoveryStep]_vars

\* C11 witness: after a recovered conflict a trigger has been published on the
\* fresh channel.
C11_Witness ==
    /\ setup_outcome = "declare_conflict"
    /\ rabbitmq_channel = <<2>>
    /\ 2 \in open_channels
    /\ trigger_call /= <<>>
    /\ trigger_call[1].outcome = "ok"

\* the answers to exchange_declare that are failures other than the conflict
OtherDeclareFailures == {"declare_error", "declare_lost"}

\* C12, step: the setup returns nothing and its exception reaches run_live,
\* which logs it and leaves both names None.
C12_FatalStep ==
    SetupStepWith(OtherDeclareFailures) =>
        /\ rabbitmq_connection' = <<>>
        /\ rabbitmq_channel' = <<>>
        /\ open_channels' = {}
        /\ exchange_declares' = 1
        /\ connect_failures' = connect_failures + 1

\* C12: when exchange_declare fails with any error other than the 406 conflict,
\* setup_rabbitmq_connection returns no connection and no channel, the error
\* propagates to its caller, and no channel of that setup is ever used to
\* publish.
C12_OtherDeclareFailureIsFatal ==
    /\ [][C12_FatalStep]_vars
    /\ [](setup_outcome \in OtherDeclareFailures =>
            /\ rabbitmq_channel = <<>>
            /\ open_channels = {}
            /\ events = <<>>)

\* C12 witness: the declare was refused with another reply code, and a frame
\* with a rising edge has gone by without a publish.
C12_Witness ==
    /\ setup_outcome = "declare_error"
    /\ frames_read >= 1
    /\ pc = "waitkey"
    /\ previous_pinch_state
    /\ events = <<>>

\* the connection the loop holds is no longer open at the broker
ConnectionUnusable == rabbitmq_connection /= <<>> /\ ~connection_open

\* a publish call is made in the step and returns: the message has reached the
\* broker
PublishDeliveredInStep ==
    \/ /\ trigger_call' /= trigger_call
       /\ trigger_call' /= <<>>
       /\ trigger_call'[1].outcome = "ok"
    \/ /\ position_call' /= position_call
       /\ position_call' /= <<>>
       /\ position_call'[1].outcome = "ok"

\* C13, step: the setup runs in one step, before any frame is read; no other
\* step assigns the connection or the channel, declares an exchange or opens a
\* connection or a channel; with the connection unusable no publish call
\* returns, and the loop is left only from the frame read and the key check.
C13_NoReconnectStep ==
    /\ setup_outcome' /= setup_outcome =>
          pc = "setup" /\ setup_outcome = "" /\ frames_read = 0
    /\ pc /= "setup" =>
          /\ rabbitmq_connection' = rabbitmq_connection
          /\ rabbitmq_channel' = rabbitmq_channel
          /\ exchange_declares' = exchange_declares
          /\ open_channels' \subseteq open_channels
          /\ connection_open' => connection_open
    /\ ConnectionUnusable =>
          /\ ~PublishDeliveredInStep
          /\ ConnectionUnusable'
          /\ (pc' = "cleanup" /\ pc /= "cleanup") => pc \in {"read", "waitkey"}

\* C13, state: no frame is read before the setup has run, and with the
\* connection unusable the loop can still read the next frame.
C13_LoopGoesOn ==
    /\ frames_read >= 1 => setup_outcome /= ""
    /\ (ConnectionUnusable /\ pc = "read" /\ frames_read < MaxFrames) =>
          ENABLED ReadFrame

\* C13: the broker setup runs exactly once, before the first frame, and the
\* loop never reconnects or replaces its channel: once the connection is
\* unusable every later publish attempt fails and no message reaches the
\* broker, while the loop keeps running.
C13_SetupOnceNoReconnect == [][C13_NoReconnectStep]_vars /\ []C13_LoopGoesOn

\* C13 witness: the connection was lost before the second frame was read; that
\* frame's two publishes were attempted and failed, and the loop is at the
\* third frame read.
C13_Witness ==
    /\ ConnectionUnusable
    /\ pc = "read"
    /\ frames_read = 2
    /\ events /= <<>>
    /\ \A i \in DOMAIN events : events[i].frame = 2
    /\ trigger_call /= <<>> /\ trigger_call[1].outcome = "failed"
    /\ position_call /= <<>> /\ position_call[1].outcome = "failed"

\* run_live has returned ("done") or has propagated an error ("raised")
Exited == pc \in {"done", "raised"}

\* C14: on every exit path of run_live, every broker connection that was
\* opened is closed and every acquired camera or detection context is released
\* before run_live returns or propagates the error.
C14_EveryExitReleasesEverything ==
    Exited => ~connection_open /\ ~camera_open /\ ~tracker_open

\* a step in which the given handler is called with a message
HandlerStep(handler) ==
    /\ Len(consumer_console') = Len(consumer_console) + 1
    /\ consumer_delivery'[1].handler = handler

\* the text is the JSON literal true or false
IsJsonBoolean(text) == Len(text) = 1 /\ text[1].k \in {"true", "false"}

\* the text is a JSON number
IsJsonNumber(lexeme) == lexeme.k \in {"int", "float"}

\* the text is a JSON array of exactly two numbers
IsJsonNumberPair(text) ==
    /\ Len(text) = 5
    /\ text[1].k = "[" /\ text[3].k = "," /\ text[5].k = "]"
    /\ IsJsonNumber(text[2]) /\ IsJsonNumber(text[4])

\* the kinds of the lexemes of a text, in order
Kinds(text) == [i \in DOMAIN text |-> text[i].k]

\* the texts of ForeignTexts that are not JSON: a bare word, an array that is
\* not closed, two values in a row, the empty text
NotJson(text) ==
    Kinds(text) \in {<<"word">>, <<"[", "float", ",">>, <<"true", "false">>, <<>>}

\* C15, step: a body that is a JSON text is accepted by the trigger handler
\* exactly when the text is true or false, and then as that boolean; every
\* other JSON value is reported as an invalid boolean; the handler returns and
\* the consumer is still consuming.
C15_TriggerStep ==
    (HandlerStep("handle_trigger_message")
        /\ consumer_delivery'[1].message.body.utf8
        /\ ~NotJson(consumer_delivery'[1].message.body.text)) =>
        LET text == consumer_delivery'[1].message.body.text
            result == consumer_result'[1]
        IN  /\ ~result.raised
            /\ consumer_pc' = "consuming"
            /\ result.printed \in {"Received pinch trigger", "Invalid boolean format"}
            /\ result.printed = "Received pinch trigger" <=> IsJsonBoolean(text)
            /\ IsJsonBoolean(text) =>
                  result.value = <<[type |-> "bool", v |-> <<text[1].k = "true">>]>>

\* C15: the trigger handler accepts a payload iff it decodes to a JSON
\* boolean; every other decoded shape (number, string, null, array, object) is
\* reported as invalid and discarded, and the handler returns normally so the
\* consumer keeps running.
C15_TriggerValidIffBoolean == [][C15_TriggerStep]_vars

\* C15 witness: the trigger payload "yes" (a JSON string) was reported as
\* invalid, and the consumer has gone on to accept the next trigger.
C15_Witness ==
    /\ consumer_console = <<"Invalid boolean format", "Received pinch trigger">>
    /\ consumer_pc = "consuming"
    /\ consumer_result[1].value = <<[type |-> "bool", v |-> <<FALSE>>]>>

\* the last message was handed to the given handler as UTF-8 bytes
Handled(handler) ==
    /\ consumer_delivery /= <<>>
    /\ consumer_delivery[1].handler = handler
    /\ consumer_delivery[1].message.body.utf8

\* C16: the position handler accepts a payload iff it decodes to a JSON array
\* of exactly two JSON numbers; other lengths, non-arrays and two-element
\* arrays with a non-number (boolean, string, null, nested value) are reported
\* as invalid; acceptance does not depend on the values lying in [0,1].
C16_PositionValidIffTwoNumbers ==
    Handled("handle_position_message") =>
        (consumer_result[1].printed = "Received position"
            <=> IsJsonNumberPair(consumer_delivery[1].message.body.text))

\* C17: for every body delivered to either handler, not valid JSON and not
\* valid UTF-8 included, the failure is caught inside the handler, the message
\* is discarded, and the consumer goes on consuming: no handler raises.
C17_MalformedNeverStopsConsumer ==
    consumer_result /= <<>> => ~consumer_result[1].raised

\* the last message was published by send_pinch_trigger or send_thumb_position
FromPublisher == consumer_delivery /= <<>> /\ consumer_delivery[1].message.sent /= <<>>

\* C18: a trigger published by send_pinch_trigger for a boolean is routed on
\* the trigger key to handle_trigger_message alone, decodes to the same boolean
\* and is accepted; a position published by send_thumb_position for (x, y) is
\* routed on the position key to handle_position_message alone, decodes to the
\* same pair in the same order and is accepted.
C18_RoundTrip ==
    FromPublisher =>
        LET message == consumer_delivery[1].message
            sent == message.sent[1]
            result == consumer_result[1]
        IN  /\ ~result.raised
            /\ result.value = <<sent>>
            /\ IF sent.type = "bool"
               THEN /\ message.routing_key = "RADr.Handout.Trigger"
                    /\ consumer_delivery[1].handler = "handle_trigger_message"
                    /\ result.printed = "Received pinch trigger"
               ELSE /\ message.routing_key = "RABBITMQ_ROUTING_KEY_POSITION"
                    /\ consumer_delivery[1].handler = "handle_position_message"
                    /\ result.printed = "Received position"

\* C18 witness: the position published for (0.25, 0.75) was accepted as
\* x = 0.25, y = 0.75, after a published trigger was accepted.
C18_Witness ==
    /\ FromPublisher
    /\ consumer_console = <<"Received pinch trigger", "Received position">>
    /\ consumer_delivery[1].message.sent[1].v[1].v = <<(<<1, 4>>)>>
    /\ consumer_result[1].value[1].v[1] = [type |-> "float", v |-> <<(<<1, 4>>)>>]
    /\ consumer_result[1].value[1].v[2] = [type |-> "float", v |-> <<(<<3, 4>>)>>]

\* the point the code computes the published position from: the thumb tip of
\* the hand (landmark 4; (0, 0) for a hand of fewer than 5 landmarks), the
\* right wrist of the body (keypoint 10)
PublishedAnchor ==
    IF variant = "hand"
    THEN IF Len(detection[1].landmarks_px) < 5
         THEN <<0, 0>>
         ELSE detection[1].landmarks_px[5]
    ELSE detection[1][11]

\* the midpoint of thumb tip and index tip, as drawn ((0, 0) for a hand of
\* fewer than 9 landmarks)
HandMidpoint ==
    LET lm == detection[1].landmarks_px
    IN  IF Len(lm) < 9
        THEN <<0, 0>>
        ELSE <<IntHalf(lm[5][1] + lm[9][1]), IntHalf(lm[5][2] + lm[9][2])>>

\* the JSON text [point_x / 640, point_y / 480]
PositionBody(point) ==
    <<[k |-> "[", v |-> <<>>],
      [k |-> "float", v |-> <<(<<point[1], 640>>)>>],
      [k |-> ",", v |-> <<>>],
      [k |-> "float", v |-> <<(<<point[2], 480>>)>>],
      [k |-> "]", v |-> <<>>]>>

\* the frame's position has been published and its marker drawn
PositionFrameDrawn == pc = "waitkey" /\ position_call /= <<>>

\* C19, as claimed: in both variants the position published on an IDLE->ACTIVE
\* frame is the point of that frame's on-screen marker divided by the frame
\* size.
C19_PositionIsMarkerPoint ==
    PositionFrameDrawn =>
        /\ marker /= <<>>
        /\ position_call[1].message.body = PositionBody(marker[1])

\* C19, amended: the published position is the thumb tip (hand variant) or
\* the right wrist (body-pose variant) divided by the frame size; the marker
\* of that frame is drawn at the same point in the body-pose variant, and at
\* the midpoint of thumb tip and index tip in the hand variant.
C19_PositionIsThumbTipOrWrist ==
    /\ position_call /= <<>> =>
          position_call[1].message.body = PositionBody(PublishedAnchor)
    /\ PositionFrameDrawn =>
          marker = <<IF variant = "hand" THEN HandMidpoint ELSE PublishedAnchor>>

\* C19 witness: a hand of 21 landmarks has published its thumb tip while the
\* marker of the frame is at another point, the midpoint.
C19_Witness ==
    /\ variant = "hand"
    /\ PositionFrameDrawn
    /\ position_call[1].outcome = "ok"
    /\ Len(detection[1].landmarks_px) = 21
    /\ marker /= <<PublishedAnchor>>
    /\ marker = <<(<<-3, 240>>)>>

\* the x and y the position call of the next state carries, as fractions
PublishedX == position_call'[1].message.body[2].v[1]

PublishedY == position_call'[1].message.body[4].v[1]

\* C20, step: on a rising edge with a channel the position is published
\* wherever the anchor lies, and a coordinate below 0 or at/above the frame
\* size gives a component below 0 or at/above 1.
C20_PassThroughStep ==
    (pc = "position" /\ pc' = "store"
        /\ is_pinching /\ ~previous_pinch_state /\ rabbitmq_channel /= <<>>) =>
        /\ position_call' /= <<>>
        /\ PublishedX[2] > 0 /\ PublishedY[2] > 0
        /\ PublishedAnchor[1] < 0 => PublishedX[1] < 0
        /\ PublishedAnchor[1] >= 640 => PublishedX[1] >= PublishedX[2]
        /\ PublishedAnchor[2] < 0 => PublishedY[1] < 0
        /\ PublishedAnchor[2] >= 480 => PublishedY[1] >= PublishedY[2]

\* C20: published position components are passed through unclamped: an anchor
\* outside the frame gives a component below 0 or at/above 1, and the event is
\* neither clamped nor suppressed.
C20_PositionIsNotClamped == [][C20_PassThroughStep]_vars

\* C20 witness: a right wrist at the frame width has been published with
\* x = 640/640, which is 1.
C20_Witness ==
    /\ variant = "pose"
    /\ position_call /= <<>>
    /\ position_call[1].outcome = "ok"
    /\ position_call[1].message.body[2].v[1] = <<640, 640>>
    /\ position_call[1].message.body[4].v[1] = <<100, 480>>

\* the statements of the body of `while True:`
LoopPcs == {"read", "trigger", "position", "store", "reset", "waitkey"}

\* the `finally` block is running or has run
LoopLeft == pc \in {"cleanup", "cleanup_raising", "done", "raised"}

\* what the loop has measured and published
LoopWork == <<frames_read, scores, events, detection, is_pinching,
              previous_pinch_state, trigger_call, position_call, marker>>

C21_ExitStep ==
    \* a failed read measures nothing and goes to the cleanup
    /\ (pc = "read" /\ pc' \notin {"read", "trigger", "cleanup_raising"})
          => pc' = "cleanup" /\ UNCHANGED LoopWork
    \* after a frame the key decides: q or ESC ends the loop, anything else
    \* reads the next frame
    /\ (pc = "waitkey" /\ pc' \notin {"waitkey", "cleanup_raising"})
          => /\ key' /= <<>>
             /\ pc' = IF key'[1] \in QuitKeys THEN "cleanup" ELSE "read"
             /\ UNCHANGED LoopWork
    \* the loop is left through the `finally` block only, whatever ends it
    /\ (pc \in LoopPcs /\ pc' \notin LoopPcs)
          => pc' \in {"cleanup", "cleanup_raising"} /\ UNCHANGED LoopWork
    \* once left, it is never entered again and does no further work
    /\ LoopLeft => LoopLeft' /\ UNCHANGED LoopWork
    \* the cleanup releases what the loop used, then run_live returns, or the
    \* pending exception goes on
    /\ (pc \in {"cleanup", "cleanup_raising"} /\ pc' /= pc)
          => /\ pc' = IF pc = "cleanup" THEN "done" ELSE "raised"
             /\ ~camera_open' /\ ~tracker_open'
             /\ rabbitmq_connection /= <<>> => ~connection_open'

C21_CleanupRuns ==
    /\ pc = "read" => ENABLED (ReadFails /\ pc' = "cleanup")
    /\ pc = "waitkey" => ENABLED (WaitKey /\ pc' = "cleanup")
    /\ pc \in LoopPcs => ENABLED (LoopRaises /\ pc' = "cleanup_raising")
    /\ pc \in {"cleanup", "cleanup_raising"} => ENABLED Cleanup

\* C21: the frame loop ends when a read fails or when q or ESC is seen after
\* a frame; from then on no frame is measured and nothing is published, the
\* cleanup runs and run_live returns; an interrupt or a fatal error of the
\* acquisition or the model ends the loop through the same cleanup.
C21_LoopEndsThroughCleanup == [][C21_ExitStep]_vars /\ []C21_CleanupRuns

\* ESC was pressed after the second frame, while the gesture was active:
\* run_live has returned with the camera released
C21_Witness ==
    /\ pc = "done"
    /\ key = <<27>>
    /\ frames_read = 2
    /\ previous_pinch_state
    /\ events /= <<>>
    /\ ~camera_open /\ ~tracker_open

\* the call's keypoints hold both shoulders
HasShoulders(kpts) == Shape0(kpts) > Max(LEFT_SHOULDER_IDX, RIGHT_SHOULDER_IDX)

\* the distance between them, in units
ShoulderGap(kpts) ==
    Norm(Sub(At(kpts, LEFT_SHOULDER_IDX), At(kpts, RIGHT_SHOULDER_IDX)))

\* C22: the body scale is 1.0 exactly when the shoulders are missing or less
\* than 1e-3 apart and is their distance otherwise, so that a distance of
\* exactly 1e-3 is returned as the scale; the scale, and with it the divisor
\* of the score, is never zero or negative.
C22_ScaleFallbackBelowEpsilon ==
    /\ scale_result /= <<>> =>
          LET kpts == kpts_arg[1]
              degenerate == \/ ~HasShoulders(kpts)
                            \/ ShoulderGap(kpts) * 1000 < UnitsPerPixel
          IN  /\ scale_result[1] = IF degenerate THEN UnitsPerPixel
                                                ELSE ShoulderGap(kpts)
              /\ scale_result[1] > 0
    /\ score_result /= <<>> => score_result[1][2] > 0

\* this frame's trigger publish was attempted and raised
TriggerDropped == trigger_call /= <<>> /\ trigger_call[1].outcome = "failed"

C23_AdvanceStep ==
    \* the store after the publishes: the state becomes the frame's
    \* classification, whether the trigger was delivered or dropped
    /\ (pc \in {"store", "reset"} /\ pc' = "waitkey")
          => previous_pinch_state' = ActiveNow
    /\ (pc \in {"store", "reset"} /\ pc' = "waitkey" /\ TriggerDropped)
          => previous_pinch_state' = (trigger_call[1].message = TriggerMessage(TRUE))
    \* a frame classified as the stored state says publishes nothing, whatever
    \* became of the trigger that led to that state
    /\ (pc = "trigger" /\ pc' \notin {pc, "cleanup_raising"}
           /\ ActiveNow = previous_pinch_state)
          => events' = events /\ trigger_call' = <<>>
    \* nothing but the frame's store changes the state
    /\ (pc \in LoopPcs \ {"store", "reset"}) => UNCHANGED previous_pinch_state

\* C23: the stored activation state advances to the frame's classification
\* whether the trigger publish was delivered or failed, so a dropped trigger is
\* not sent again on the steady frames that follow.
C23_StateAdvancesOnFailure == [][C23_AdvanceStep]_vars

\* the second frame's Trigger(true) was dropped and the state is active all the
\* same
C23_Witness ==
    /\ pc = "waitkey"
    /\ frames_read = 2
    /\ TriggerDropped
    /\ trigger_call[1].message = TriggerMessage(TRUE)
    /\ previous_pinch_state
    /\ ActiveNow

\* the trigger publishes attempted so far, in order
TriggerAttempts == SelectSeq(events, LAMBDA e : IsTrigger(e.message))

\* C24: with a working channel the payloads of the trigger publishes attempted
\* are true, false, true, ... in turn: the first is true and no two in a row
\* are equal, whether a false came from a frame at or above the threshold or
\* from a frame without a subject.
C24_TriggersAlternate ==
    WorkingChannel =>
        \A i \in 1..Len(TriggerAttempts) :
            TriggerAttempts[i].message = TriggerMessage(i % 2 = 1)

\* four triggers on four frames: the first false after a frame without a
\* subject, the second after a frame with a subject that is not active
C24_Witness ==
    /\ WorkingChannel
    /\ Len(TriggerAttempts) = 4
    /\ \A i \in 1..4 : TriggerAttempts[i].frame = i
    /\ scores[2] = <<>>
    /\ scores[4] /= <<>>

\* the frame is an IDLE->ACTIVE frame on a channel
RisingFrame ==
    /\ HasSubject(variant, detection)
    /\ is_pinching /\ ~previous_pinch_state
    /\ rabbitmq_channel /= <<>>

\* the call has been made and has returned or raised
Completed(call) == call /= <<>> /\ call[1].outcome \in PublishOutcomes

C25_PublishLog ==
    \* the log runs frame by frame: no publish of an earlier frame follows one
    \* of a later frame, and none is of a frame not yet read
    /\ \A i \in 1..Len(events) :
          /\ events[i].frame \in 1..frames_read
          /\ i > 1 => events[i - 1].frame <= events[i].frame
    \* a frame has at most one trigger and one position, the trigger first
    /\ \A f \in 1..frames_read :
          LET es == EventsOfFrame(f)
          IN  /\ Len(es) <= 2
              /\ Len(es) >= 1 => IsTrigger(es[1].message)
              /\ Len(es) = 2 => IsPosition(es[2].message)
    \* on a rising frame the trigger has completed when the position is to be
    \* sent, and both have completed when the state is to be stored
    /\ (pc = "position" /\ RisingFrame) => Completed(trigger_call) /\ position_call = <<>>
    /\ (pc = "store" /\ RisingFrame) => Completed(trigger_call) /\ Completed(position_call)

C25_FrameStep ==
    \* the store and the wait for the key publish nothing
    /\ pc \in {"store", "reset", "waitkey"}
          => UNCHANGED <<events, trigger_call, position_call>>
    \* the next frame is read after the store of this one, and starts without
    \* a publish of its own
    /\ frames_read' /= frames_read
          => /\ pc = "read" /\ frames_read' = frames_read + 1
             /\ SelectSeq(events', LAMBDA e : e.frame = frames_read') = <<>>
             /\ events' = events

\* C25: on an IDLE->ACTIVE frame the trigger publish is attempted before the
\* position publish, both have returned or raised before the state is stored
\* and before the next frame is read, and a frame has at most one trigger and
\* at most one position publish, so the publishes of different frames never
\* interleave.
C25_PublishesInFrameOrder == [][C25_FrameStep]_vars /\ []C25_PublishLog

\* a rising frame after a falling one, about to store its state: the log
\* ends with the second frame's trigger, then the third frame's trigger and
\* position
C25_Witness ==
    /\ pc = "store"
    /\ RisingFrame
    /\ frames_read = 3
    /\ Len(events) = 5
    /\ events[3].frame = 2
    /\ events[4] = [frame |-> 3, message |-> TriggerMessage(TRUE)]
    /\ events[5].frame = 3 /\ IsPosition(events[5].message)
    /\ trigger_call[1].outcome = "failed"
    /\ position_call[1].outcome = "ok"

\* One state machine for both loops, in terms of the frame's inputs alone:
\* state is the stored activation state, subject and active the frame's
\* classification, channel whether the setup gave a channel. It says nothing
\* of which loop runs.

\* the trigger the machine attempts on the frame: none, or its payload
MachineTrigger(state, subject, active, channel) ==
    IF channel /\ subject /\ active /= state THEN <<active>>
    ELSE IF channel /\ ~subject /\ state THEN <<FALSE>>
    ELSE <<>>

\* whether the machine attempts a position on the frame
MachinePosition(state, subject, active, channel) ==
    channel /\ subject /\ active /\ ~state

\* the state the machine holds after the frame
MachineState(state, subject, active, channel) ==
    IF subject THEN active
    ELSE IF channel THEN FALSE
    ELSE state

\* the frame's inputs, as the machine sees them
Subject == HasSubject(variant, detection)

Channel == rabbitmq_channel /= <<>>

\* what the loop has attempted: the kind of each publish, coordinates left out
Attempt(e) ==
    IF IsTrigger(e.message)
    THEN [frame |-> e.frame, kind |-> "trigger", body |-> e.message.body]
    ELSE [frame |-> e.frame, kind |-> "position", body |-> <<>>]

MachineAttempt(frame, kind, payload) ==
    IF kind = "trigger"
    THEN [frame |-> frame, kind |-> "trigger", body |-> TriggerMessage(payload).body]
    ELSE [frame |-> frame, kind |-> "position", body |-> <<>>]

\* the publishes the step has attempted
NewAttempts ==
    [i \in 1..(Len(events') - Len(events)) |-> Attempt(events'[Len(events) + i])]

C26_MachineStep ==
    \* the trigger decision of a frame is the machine's
    /\ (pc = "trigger" /\ pc' \notin {pc, "cleanup_raising"})
          => LET t == MachineTrigger(previous_pinch_state, Subject, ActiveNow, Channel)
             IN  /\ SubSeq(events', 1, Len(events)) = events
                 /\ NewAttempts = IF t = <<>> THEN <<>>
                                   ELSE <<MachineAttempt(frames_read, "trigger", t[1])>>
    \* the position decision of a frame is the machine's
    /\ (pc = "position" /\ pc' \notin {pc, "cleanup_raising"})
          => /\ SubSeq(events', 1, Len(events)) = events
             /\ NewAttempts =
                  IF MachinePosition(previous_pinch_state, Subject, ActiveNow, Channel)
                  THEN <<MachineAttempt(frames_read, "position", TRUE)>>
                  ELSE <<>>
    \* no other step publishes
    /\ pc \notin {"trigger", "position"} => events' = events
    \* the state held when the frame is over is the machine's
    /\ (pc \in {"trigger", "store", "reset"} /\ pc' = "waitkey")
          => previous_pinch_state' =
                MachineState(previous_pinch_state, Subject, ActiveNow, Channel)
    \* and it is held until the next frame is over
    /\ (pc \in {"read", "position", "waitkey"}
          \/ (pc = "trigger" /\ pc' /= "waitkey"))
          => UNCHANGED previous_pinch_state

\* both loops start the machine in the same state
C26_MachineStart == pc = "read" /\ frames_read = 0 => ~previous_pinch_state /\ events = <<>>

\* C26: the hand-tracking loop and the body-pose loop are one state machine:
\* given a frame's inputs (subject or not, active or not), the channel and the
\* publish outcomes, each attempts the trigger and the position the machine
\* attempts and holds the state the machine holds after the frame.
C26_BothLoopsAreOneMachine == [][C26_MachineStep]_vars /\ []C26_MachineStart

\* the body-pose loop after three frames: Trigger(true) and a position on the
\* first, nothing on the second, Trigger(false) on the third, which had no
\* subject
C26_Witness ==
    /\ variant = "pose"
    /\ pc = "waitkey"
    /\ frames_read = 3
    /\ ~Subject
    /\ ~previous_pinch_state
    /\ Len(events) = 3
    /\ Attempt(events[1]) = MachineAttempt(1, "trigger", TRUE)
    /\ Attempt(events[2]) = MachineAttempt(1, "position", TRUE)
    /\ Attempt(events[3]) = MachineAttempt(3, "trigger", FALSE)

====
